---- MODULE Spec2Model ----
(***************************************************************************)
(* Lyte reactive runtime: signals, computed values, effects, the scheduler,*)
(* batching, transitions and error boundaries, as one state machine.       *)
(*                                                                         *)
(* JavaScript runs one synchronous extent at a time, so every API call made*)
(* by client code is one action.  The library functions are operators that *)
(* map a program state (a record of every mutable field) to the program    *)
(* state after the call; an exception is the field `thrown`, a return value*)
(* the field `ret`.  The callbacks handed to batch and startTransition are *)
(* client code: the call is entered by one action, the callback's own API  *)
(* calls are the actions taken while its frame is on `stack`, and the rest *)
(* of the call (the finally block, the flush) is the exit action.          *)
(***************************************************************************)
EXTENDS Integers, Sequences, FiniteSets, TLC

\* ------------------------------------------------------------------ bounds
MaxVal == 2
MaxRuns == 2
MaxQueue == 2
MaxCtx == 3
MaxDepth == 2
MaxDispose == 2
MaxTimers == 2
MaxWrites == 2

\* ------------------------------------------------------------ identifiers
\* Every object is <<kind, index>>, so that objects of different classes can
\* share a Set (a subscriber set holds Effects, Computeds and boundary contexts).
\* The client program has two Signals X and Y, five Computeds (Doubled, the
\* diamond A, B, C, and Guarded, whose computeFn can throw), and calls effect()
\* at most twice (E1, then E2).
Null == <<"null", 0>>
X == <<"sig", 1>>
Y == <<"sig", 2>>
A == <<"comp", 1>>
B == <<"comp", 2>>
C == <<"comp", 3>>
Doubled == <<"comp", 4>>
Guarded == <<"comp", 5>>
Signals == {X, Y}
Comps == {A, B, C, Doubled, Guarded}
E1 == <<"eff", 1>>
E2 == <<"eff", 2>>
Effects == {E1, E2}
Ctxs == {<<"ctx", i>> : i \in 1..MaxCtx}
Nodes == Effects \cup Comps \cup Ctxs
Sources == Signals \cup Comps
Undefined == -1
Vals == 0..MaxVal

IsEffect(n) == n[1] = "eff"
IsComp(n) == n[1] = "comp"
IsCtx(n) == n[1] = "ctx"

\* A JavaScript Set iterates in insertion order: a sequence without duplicates.
Range(q) == {q[i] : i \in 1..Len(q)}
SetAdd(q, x) == IF x \in Range(q) THEN q ELSE Append(q, x)
SetDelete(q, x) == SelectSeq(q, LAMBDA y : y # x)

\* ---------------------------------------------------------------- state
VARIABLES
  value,            \* Signal.value, Computed.value
  subscribers,      \* Signal.subscribers
  dependencies,     \* Computed/Effect/boundary-context .dependencies
  dirty,            \* Computed.dirty
  constructed,      \* Computed: "no", "object" (constructor ran), "reader" (computed() returned)
  body,             \* Effect.effectFn: which client function, "none" before effect() is called
  disposed,         \* Effect.disposed
  cleanup,          \* Effect.cleanup: 0 = null/undefined, k = the closure returned by run k
  runs,             \* number of invocations of the Effect's body
  ctxCount,         \* number of boundary contexts allocated by protectedFn
  parent,           \* context.parent
  execute,          \* context.execute: the wrapped function that made it
  errorBoundaries,  \* the WeakMap context -> handler
  currentContext,
  batchDepth,
  pendingEffects,
  currentScheduler,
  microtasks,       \* tasks queued by the default scheduler, each `() => effect.execute()`
  timers,           \* setTimeout(() => { throw error }, 0) callbacks not yet fired
  isTransitioning,
  pendingUpdates,
  stack,            \* the calls of batch/startTransition whose callback is running
  \* observations of the run, read by the properties only
  last,             \* the API call just made, when it returned a value, threw or
                    \* was a write of a different value the comparator found equal
  handed,           \* per node: scheduleEffect calls from notify/flush during the batch call
  affected,         \* nodes subscribed to a Signal at a non-equal write of the batch call
  cleanupDone,      \* per Effect: the cleanup closures invoked so far
  cleanupTwice,     \* per Effect: some cleanup closure was invoked a second time
  disposeCalls,     \* per Effect: calls of its disposer
  disposeCleanups,  \* per Effect: cleanup invocations made by dispose()
  everRead,         \* per Effect: sources its body read in any run
  lastReads,        \* per Effect: sources its body read in its most recent run
  lastRunOk,        \* per Effect: the most recent run returned normally
  ranDisposed,      \* per Effect: execute() was called after disposal
  handlerCalls,     \* per wrapped function: invocations of its handler
  fnThrows,         \* per wrapped function: invocations in which fn threw
  fnCalls,          \* per transition effect: invocations of its effectFn
  batchWrites,      \* non-equal writes made so far by the batch call
  batchWrote,       \* X was written (non-equal) inside a batch after A and B were built
  joinRun,          \* what the last run of C's computeFn saw: "none" (no run yet),
                    \* "fresh" or "stale" values of A and B, or "threw"
  seen,             \* per Effect: <<v>> when the read of its latest run returned v, else <<>>
  bodyThrows,       \* per Effect: runs of its body that threw
  routed,           \* per node: calls of handleEffectError with it
  effectScheduler,  \* Effect.scheduler: "none", or the scheduler given in options
  initialTasks,     \* per Effect: the initial runs effect() handed to a scheduler
  flushes,          \* drains of the pending set during the batch call
  suspended,        \* an async startTransition callback awaits
  scheduled,        \* throttled scheduler: a timer is armed
  pendingTask,      \* throttled scheduler: node of the pending task
  throttleTimers,   \* timers armed by the throttled scheduler
  window,           \* tasks given to schedule() since the arming
  lastFire,         \* the latest firing: its window, the task it called
  uncaught,         \* an error reached the host (thrown out of a task or a timer)
  overflow          \* a bound of the model was hit inside a call

vars == <<value, subscribers, dependencies, dirty, constructed, body, disposed,
          cleanup, runs, ctxCount, parent, execute, errorBoundaries,
          currentContext, batchDepth, pendingEffects, currentScheduler,
          microtasks, timers, isTransitioning, pendingUpdates, stack,
          last, handed, affected, cleanupDone, cleanupTwice, disposeCalls, disposeCleanups,
          everRead, lastReads, lastRunOk, ranDisposed, handlerCalls, fnThrows,
          fnCalls, batchWrites, batchWrote, joinRun, seen,
          bodyThrows,
          routed,
          effectScheduler,
          initialTasks,
          flushes,
          suspended,
          scheduled,
          pendingTask,
          throttleTimers,
          window,
          lastFire,
          uncaught, overflow>>

\* The program state as one record, `thrown` and `ret` being the outcome of the
\* call in progress.
St == [value |-> value, subscribers |-> subscribers, dependencies |-> dependencies,
       dirty |-> dirty, constructed |-> constructed, body |-> body,
       disposed |-> disposed, cleanup |-> cleanup, runs |-> runs,
       ctxCount |-> ctxCount, parent |-> parent, execute |-> execute,
       errorBoundaries |-> errorBoundaries, currentContext |-> currentContext,
       batchDepth |-> batchDepth, pendingEffects |-> pendingEffects,
       currentScheduler |-> currentScheduler, microtasks |-> microtasks,
       timers |-> timers, isTransitioning |-> isTransitioning,
       pendingUpdates |-> pendingUpdates, stack |-> stack,
       handed |-> handed, affected |-> affected, cleanupDone |-> cleanupDone,
       cleanupTwice |-> cleanupTwice,
       disposeCalls |-> disposeCalls, disposeCleanups |-> disposeCleanups,
       everRead |-> everRead, lastReads |-> lastReads, lastRunOk |-> lastRunOk,
       ranDisposed |-> ranDisposed, handlerCalls |-> handlerCalls,
       fnThrows |-> fnThrows, fnCalls |-> fnCalls, batchWrites |-> batchWrites,
       batchWrote |-> batchWrote, joinRun |-> joinRun, seen |-> seen,
       bodyThrows |-> bodyThrows,
       routed |-> routed,
       effectScheduler |-> effectScheduler,
       initialTasks |-> initialTasks,
       flushes |-> flushes,
       suspended |-> suspended,
       scheduled |-> scheduled,
       pendingTask |-> pendingTask,
       throttleTimers |-> throttleTimers,
       window |-> window,
       lastFire |-> lastFire,
       uncaught |-> uncaught,
       overflow |-> overflow, thrown |-> "none", ret |-> Undefined]

Throw(st, error) == [st EXCEPT !.thrown = error]
Caught(st) == [st EXCEPT !.thrown = "none"]
Return(st, v) == [st EXCEPT !.ret = v]
Threw(st) == st.thrown # "none"

\* ------------------------------------------------------- faulty variants
\* Variants of single lines of the library, each dropping the step a property
\* below relies on.
AlwaysNotifies(st, s, v) == FALSE
ExecutesDisposed(st, e) == FALSE
KeepsDependencies(st, e) == st
NeverBatches(st) == FALSE
NeverDefers(st) == FALSE
AlwaysRethrows(st, node, error) == [st EXCEPT !.timers = @ + 1]
Propagates(st, node, error) == Throw(st, error)
IgnoresOwnScheduler(st, n) == st.currentScheduler
EveryExitFlushes(st) == TRUE
MarksAgain(st, c) == FALSE
CleansOnThrow(s1, c) == [s1 EXCEPT !.dirty[c] = FALSE]
SkipsRestore(st, prevContext) == st
StartsAtParent(st, context) == IF context = Null THEN Null ELSE st.parent[context]
Swallows(st, error) == st
AlwaysOpens(st) == [st EXCEPT !.isTransitioning = TRUE, !.pendingUpdates = <<>>]


\* `finally { currentContext = prevContext; }`, the last statement of
\* Effect.execute, Computed.recompute and protectedFn.
Restore(st, prevContext) == [st EXCEPT !.currentContext = prevContext]

\* ---------------------------------------------------------------- Signal
\* Signal.get (bound as the reader returned by createSignal).
SignalGet(st, s) ==
  LET ctx == st.currentContext IN
  IF ctx # Null
    THEN [st EXCEPT !.subscribers[s] = SetAdd(@, ctx),
                    !.dependencies[ctx] = @ \cup {s},
                    !.ret = st.value[s]]
    ELSE Return(st, st.value[s])

\* options.comparator of createSignal: X keeps the default Object.is, Y is
\* created with a custom comparator that treats values of equal parity as equal.
Comparator(s, old, new) ==
  IF s = X THEN old = new ELSE (old % 2) = (new % 2)

\* The argument of a setter: <<"val", v>> is a literal, <<"fn", name>> an updater
\* function of the previous value.
Updaters == {"same", "next"}
NewValues == {<<"val", v>> : v \in Vals} \cup {<<"fn", u>> : u \in Updaters}
ApplyUpdater(u, old) == IF u = "same" THEN old ELSE (old + 1) % (MaxVal + 1)

\* -------------------------------------------------------------- Computed
\* The constructor assigns computeFn, value, dependencies, dirty and cache, and
\* no `subscribers`: `this.subscribers` is undefined in every method.

\* Computed.notify: this.subscribers.forEach(...) on undefined, a TypeError.
ComputedNotify(st, c) == Throw(st, "TypeError")

\* Computed.get, `if (currentContext) { this.subscribers.add(currentContext);
\* ... }`: the node has no subscribers field, so with an active node the
\* first statement is a TypeError; with none nothing is registered.
ComputedTrack(st, c) ==
  IF st.currentContext # Null THEN Throw(st, "TypeError") ELSE st

RECURSIVE ComputedGet(_, _), ComputedRecompute(_, _), ComputeFn(_, _)

\* Computed.get, `this.recompute(); this.dirty = false;`: the assignment is
\* reached only when recompute() returned.
AfterRecompute(s1, c) ==
  IF Threw(s1) THEN s1 ELSE [s1 EXCEPT !.dirty[c] = FALSE]

\* What each computeFn derives from the value x of Signal X (client code):
\* Doubled is `x * 2`, A is `x ? x * 2 : undefined`, B is `x ? x + 1 : undefined`,
\* C, the join of the diamond, is `A() + B()`, and Guarded is `x ? x : undefined`
\* behind a check that throws an Error when x is MaxVal.
Derived(c, x) ==
  IF c = Doubled THEN x * 2
  ELSE IF x = 0 THEN Undefined
  ELSE IF c = Guarded THEN x
  ELSE IF c = A THEN x * 2
  ELSE IF c = B THEN x + 1
  ELSE x * 2 + x + 1

\* The computeFn of each Computed.  C notes in `joinRun` what its run saw.
ComputeFn(st, c) ==
  IF c = Guarded THEN
    LET s1 == SignalGet(st, X) IN
    IF s1.ret = MaxVal THEN Throw(s1, "Error") ELSE Return(s1, Derived(c, s1.ret))
  ELSE IF c # C THEN
    LET s1 == SignalGet(st, X) IN Return(s1, Derived(c, s1.ret))
  ELSE
    LET s1 == ComputedGet(st, A) IN
    IF Threw(s1) THEN [s1 EXCEPT !.joinRun = "threw"]
    ELSE LET s2 == ComputedGet(s1, B) IN
         IF Threw(s2) THEN [s2 EXCEPT !.joinRun = "threw"]
         ELSE Return([s2 EXCEPT !.joinRun =
                        IF /\ s1.ret = Derived(A, s2.value[X])
                           /\ s2.ret = Derived(B, s2.value[X])
                          THEN "fresh" ELSE "stale"],
                     IF s1.ret = Undefined \/ s2.ret = Undefined
                       THEN Undefined ELSE s1.ret + s2.ret)

\* Computed.recompute
ComputedRecompute(st, c) ==
  LET prevContext == st.currentContext
      s1 == [st EXCEPT !.currentContext = c, !.dependencies[c] = {}]
      s2 == ComputeFn(s1, c)
      s3 == IF Threw(s2) THEN s2
            ELSE IF s2.ret # s2.value[c]
              THEN ComputedNotify([s2 EXCEPT !.value[c] = s2.ret], c)
              ELSE s2
  IN Restore(s3, prevContext)

\* Computed.markDirty, `if (!this.dirty)` negated: the node is dirty already.
AlreadyDirty(st, c) == st.dirty[c]

\* Computed.markDirty.  No code path calls it: Signal.notify hands its
\* subscribers to the scheduler and Computed.notify fails before its loop.
ComputedMarkDirty(st, c) ==
  IF AlreadyDirty(st, c) THEN st
  ELSE ComputedNotify([st EXCEPT !.dirty[c] = TRUE], c)

\* Computed.get (bound as the reader returned by computed()).  With an active
\* node, this.subscribers.add(currentContext) on undefined is a TypeError,
\* thrown before the node's dependency set is touched.
ComputedGet(st, c) ==
  IF Threw(ComputedTrack(st, c)) THEN ComputedTrack(st, c)
  ELSE IF st.dirty[c]
    THEN LET s1 == AfterRecompute(ComputedRecompute(st, c), c) IN
         IF Threw(s1) THEN s1 ELSE Return(s1, s1.value[c])
    ELSE Return(st, st.value[c])

\* computed(computeFn): new Computed, recompute(), return the bound reader.
computed(st, c) ==
  LET s0 == [st EXCEPT !.constructed[c] = "object", !.value[c] = Undefined,
                       !.dependencies[c] = {}, !.dirty[c] = TRUE]
      s1 == ComputedRecompute(s0, c)
  IN IF Threw(s1) THEN s1 ELSE [s1 EXCEPT !.constructed[c] = "reader"]

\* -------------------------------------------------------- error boundary
Wrapped == {"risky", "outer"}

RECURSIVE FindHandler(_, _)
\* The while loop of handleEffectError: the first context of the parent chain
\* that has a handler, or Null.
FindHandler(st, context) ==
  IF context = Null THEN Null
  ELSE IF st.errorBoundaries[context] # "none" THEN context
  ELSE FindHandler(st, st.parent[context])

\* setTimeout(() => { throw error }, 0): one more timer whose callback throws.
RethrowLater(st, error) == [st EXCEPT !.timers = @ + 1]

\* handleEffectError(effect, error); the re-raise is a timer callback.  A
\* handler is client code that records its invocation (console.error in the
\* example).
HandleEffectError(st, node, error) ==
  LET found == FindHandler(st, node)
      s0 == [st EXCEPT !.routed[node] = @ + 1]
  IN IF found # Null
       THEN [s0 EXCEPT !.handlerCalls[st.errorBoundaries[found]] = @ + 1]
       ELSE RethrowLater(s0, error)

RECURSIVE ProtectedFn(_, _), WrappedFn(_, _)

\* The fn given to withErrorBoundary (client code): "risky" reads X and throws
\* when it is MaxVal; "outer" calls the wrapped "risky", then reads Y and throws
\* when it is MaxVal.
WrappedFn(st, w) ==
  IF w = "risky" THEN
    LET s1 == SignalGet(st, X) IN
    IF s1.ret = MaxVal
      THEN Throw([s1 EXCEPT !.fnThrows[w] = @ + 1], "Error")
      ELSE Return(s1, 0)
  ELSE
    LET s1 == ProtectedFn(st, "risky") IN
    IF Threw(s1) \/ s1.overflow THEN s1
    ELSE LET s2 == SignalGet(s1, Y) IN
         IF s2.ret = MaxVal
           THEN Throw([s2 EXCEPT !.fnThrows[w] = @ + 1], "Error")
           ELSE Return(s2, 0)

\* protectedFn, the function returned by withErrorBoundary(fn, handler).
ProtectedFn(st, w) ==
  IF st.ctxCount >= MaxCtx THEN [st EXCEPT !.overflow = TRUE]
  ELSE
    LET prevContext == st.currentContext
        context == <<"ctx", st.ctxCount + 1>>
        s1 == [st EXCEPT !.ctxCount = @ + 1,
                         !.parent[context] = prevContext,
                         !.dependencies[context] = {},
                         !.execute[context] = w,
                         !.currentContext = context,
                         !.errorBoundaries[context] = w]
        s2 == WrappedFn(s1, w)
        s3 == IF Threw(s2)
                THEN Return(HandleEffectError(Caught(s2), context, s2.thrown), 0)
                ELSE s2
    IN Restore(s3, prevContext)

\* ------------------------------------------------------------ transition
\* The effectFn given to transitionEffect (client code): records that it ran.
EffectFn(st, e) == Return([st EXCEPT !.fnCalls[e] = @ + 1], 0)

\* transitionEffect, `if (isTransitioning)`.
Deferring(st) == st.isTransitioning

\* The arrow function transitionEffect passes to effect().
TransitionEffectBody(st, e) ==
  IF Deferring(st)
    THEN Return([st EXCEPT !.pendingUpdates = Append(@, e)], 0)
    ELSE Return(EffectFn(st, e), 0)

RECURSIVE RunUpdates(_, _)
RunUpdates(st, updates) ==
  IF updates = <<>> \/ Threw(st) THEN st
  ELSE RunUpdates(EffectFn(st, Head(updates)), Tail(updates))

\* flushPending
FlushPending(st) ==
  RunUpdates([st EXCEPT !.pendingUpdates = <<>>], st.pendingUpdates)

\* ---------------------------------------------------------------- Effect
BodyKinds == {"sub", "alt", "fails", "risky", "trans", "logs", "derived", "bump"}

\* What the body itself reads in its run number `run` (1, 2, ...): the client
\* code's own account of its reads, where the Effect is the active node.
BodyReads(kind, run) ==
  IF kind \in {"sub", "fails", "logs"} THEN {X}
  ELSE IF kind = "bump" THEN {Y}
  ELSE IF kind = "derived" THEN {A}
  ELSE IF kind = "alt" THEN (IF run % 2 = 1 THEN {X} ELSE {Y})
  ELSE {}

\* The effect bodies (client code), returning the cleanup closure (0: none):
\*   "sub"   reads X and returns a cleanup closure
\*   "fails" reads X, throws when it is MaxVal, else returns a cleanup closure
\*   "alt"   reads X on its 1st, 3rd, ... run and Y on the others
\*   "risky" is the wrapped function withErrorBoundary(fn, handler)
\*   "trans" is the function transitionEffect wraps around its effectFn
\*   "logs"  reads X and logs it (the value is noted in `seen`)
\*   "derived" calls the reader of Computed A and logs the result
\*   "bump"  reads Y and calls setX(v => v + 1)
RECURSIVE SignalSet(_, _, _)
Bump(s1) == Return(SignalSet(s1, X, <<"fn", "next">>), 0)

Logs(s1, e) == Return([s1 EXCEPT !.seen[e] = <<s1.ret>>], 0)

RunBody(st, e) ==
  LET kind == st.body[e]
      run == st.runs[e] + 1
      s0 == [st EXCEPT !.runs[e] = run,
                       !.lastReads[e] = BodyReads(kind, run),
                       !.everRead[e] = @ \cup BodyReads(kind, run)]
  IN IF kind = "sub" THEN Return(SignalGet(s0, X), run)
     ELSE IF kind = "fails" THEN
       LET s1 == SignalGet(s0, X) IN
       IF s1.ret = MaxVal THEN Throw(s1, "Error") ELSE Return(s1, run)
     ELSE IF kind = "alt" THEN
       Return(SignalGet(s0, IF run % 2 = 1 THEN X ELSE Y), 0)
     ELSE IF kind = "risky" THEN ProtectedFn(s0, "risky")
     ELSE IF kind = "trans" THEN TransitionEffectBody(s0, e)
     ELSE IF kind = "logs" THEN Logs(SignalGet(s0, X), e)
     ELSE IF kind = "bump" THEN Bump(SignalGet(s0, Y))
     ELSE
       \* "derived": a() is called with this Effect active, so get() ends in
       \* its first statement and console.log is not reached.
       ComputedTrack(s0, A)

\* this.cleanup(): the closure is client code, which notes that it ran.
CallCleanup(st, e) ==
  [st EXCEPT !.cleanupDone[e] = @ \cup {st.cleanup[e]},
             !.cleanupTwice[e] = @ \/ st.cleanup[e] \in st.cleanupDone[e]]

\* Effect.execute, `if (this.disposed) return;`
IsDisposed(st, e) == st.disposed[e]

\* Effect.execute, `this.dependencies.clear();`
ClearDependencies(st, e) == [st EXCEPT !.dependencies[e] = {}]

\* Effect.execute, the try statement around s2, the outcome of effectFn():
\* the returned value becomes the cleanup, a thrown error is handed to
\* handleEffectError, and the finally restores the active node.
TryBody(s2, e, prevContext) ==
  LET s3 == IF Threw(s2)
              THEN HandleEffectError([Caught(s2) EXCEPT !.lastRunOk[e] = FALSE,
                                                        !.bodyThrows[e] = @ + 1],
                                     e, s2.thrown)
              ELSE [s2 EXCEPT !.cleanup[e] = s2.ret, !.lastRunOk[e] = TRUE]
  IN Restore(s3, prevContext)

\* Effect.execute
EffectExecute(st, e) ==
  IF IsDisposed(st, e) THEN [st EXCEPT !.ranDisposed[e] = TRUE]
  ELSE
    LET s0 == IF st.cleanup[e] # 0 THEN CallCleanup(st, e) ELSE st
        s1 == ClearDependencies([s0 EXCEPT !.currentContext = e], e)
    IN TryBody(RunBody(s1, e), e, st.currentContext)

\* Effect.dispose (bound as the disposer returned by effect()).
EffectDispose(st, e) ==
  LET s0 == [st EXCEPT !.disposed[e] = TRUE, !.disposeCalls[e] = @ + 1]
      s1 == IF s0.cleanup[e] # 0
              THEN [CallCleanup(s0, e) EXCEPT !.disposeCleanups[e] = @ + 1]
              ELSE s0
  IN [s1 EXCEPT !.subscribers =
        [s \in Signals |-> IF s \in s1.dependencies[e]
                             THEN SetDelete(s1.subscribers[s], e)
                             ELSE s1.subscribers[s]]]

\* ------------------------------------------------------------- scheduler
\* The task `() => effect.execute()`: an Effect has execute(), a boundary
\* context has execute = protectedFn, a Computed has no such method.
Execute(st, n) ==
  IF IsEffect(n) THEN EffectExecute(st, n)
  ELSE IF IsCtx(n) THEN ProtectedFn(st, st.execute[n])
  ELSE Throw(st, "TypeError")

\* createThrottledScheduler(interval).schedule(task): the task replaces the
\* pending one, and a timer is armed unless one is armed already.  The delay
\* computed from lastRun only decides when the host fires the timer.
ThrottledSchedule(st, n) ==
  LET s0 == [st EXCEPT !.pendingTask = n,
                       !.window = IF st.scheduled THEN Append(@, n) ELSE <<n>>]
  IN IF ~st.scheduled
       THEN [s0 EXCEPT !.scheduled = TRUE, !.throttleTimers = @ + 1]
       ELSE s0

\* The timer callback, after pendingTask() returned: `pendingTask = null`.
ClearTask(s1) == IF Threw(s1) THEN s1 ELSE [s1 EXCEPT !.pendingTask = Null]

\* The timer callback of the throttled scheduler; calling null is a TypeError.
ThrottledFire(st) ==
  LET s0 == [st EXCEPT !.scheduled = FALSE, !.window = <<>>,
                       !.lastFire = [tasks |-> st.window, ran |-> st.pendingTask]]
  IN IF st.pendingTask = Null THEN Throw(s0, "TypeError")
     ELSE ClearTask(Execute(s0, st.pendingTask))

\* scheduler.schedule(task): the default scheduler queues a microtask; "sync"
\* is a client scheduler {schedule: task => task()} installed by setScheduler,
\* "throttled" one made by createThrottledScheduler.
Schedule(st, scheduler, n) ==
  IF scheduler = "sync" THEN Execute(st, n)
  ELSE IF scheduler = "throttled" THEN ThrottledSchedule(st, n)
  ELSE [st EXCEPT !.microtasks = Append(@, n)]

\* scheduleEffect, `if (effect.scheduler) ... else currentScheduler`: only an
\* Effect built with options.scheduler has the field set.
ChosenScheduler(st, n) ==
  IF IsEffect(n) /\ st.effectScheduler[n] # "none"
    THEN st.effectScheduler[n] ELSE st.currentScheduler

\* scheduleEffect(effect).  `why` tells the observations `handed` and
\* `initialTasks` who called: "init" (effect()), "notify" (Signal.notify) or
\* "flush" (batch).
scheduleEffect(st, n, why) ==
  LET s0 == IF why # "init" /\ st.stack # <<>>
              THEN [st EXCEPT !.handed[n] = @ + 1]
            ELSE IF why = "init"
              THEN [st EXCEPT !.initialTasks[n] = @ + 1]
            ELSE st
  IN Schedule(s0, ChosenScheduler(s0, n), n)

RECURSIVE NotifyFrom(_, _, _)
\* subscribers.forEach(sub => scheduleEffect(sub)): a Set's forEach also
\* visits the members added while it runs, and a throw ends it.
NotifyFrom(st, s, i) ==
  IF i > Len(st.subscribers[s]) \/ Threw(st) \/ st.overflow THEN st
  ELSE NotifyFrom(scheduleEffect(st, st.subscribers[s][i], "notify"), s, i + 1)

RECURSIVE AddAll(_, _)
AddAll(q, members) ==
  IF members = <<>> THEN q ELSE AddAll(SetAdd(q, Head(members)), Tail(members))

\* Signal.notify, `if (batchDepth > 0)`.
Batching(st) == st.batchDepth > 0

\* Signal.notify
SignalNotify(st, s) ==
  IF Batching(st)
    THEN [st EXCEPT !.pendingEffects = AddAll(@, st.subscribers[s])]
    ELSE NotifyFrom(st, s, 1)

\* Signal.set, `if (this.comparator(this.value, newValue)) return;`
IsEqualWrite(st, s, v) == Comparator(s, st.value[s], v)

\* The value a setter call stores: the literal, or the updater's result.
WrittenValue(newValue, old) ==
  IF newValue[1] = "fn" THEN ApplyUpdater(newValue[2], old) ELSE newValue[2]

\* Signal.set (bound as the setter returned by createSignal).
SignalSet(st, s, newValue) ==
  LET v == WrittenValue(newValue, st.value[s])
  IN IF IsEqualWrite(st, s, v) THEN st
     ELSE SignalNotify([st EXCEPT !.value[s] = v], s)

\* effect(effectFn): new Effect, one scheduled initial execution.
effect(st, e, kind, options) ==
  LET s0 == [st EXCEPT !.body[e] = kind, !.dependencies[e] = {},
                       !.disposed[e] = FALSE, !.cleanup[e] = 0]
      s1 == scheduleEffect(IF options # "none"
                             THEN [s0 EXCEPT !.effectScheduler[e] = options]
                             ELSE s0, e, "init")
  IN IF Threw(s1) THEN HandleEffectError(Caught(s1), e, s1.thrown) ELSE s1


\* ----------------------------------------------------------------- batch
RECURSIVE Drain(_, _)
\* The flush of batch: every member of the pending set is handed to the
\* scheduler once; the first error is the one the call ends with.
Drain(st, members) ==
  IF members = <<>> THEN st
  ELSE LET s1 == scheduleEffect(Caught(st), Head(members), "flush")
           s2 == IF Threw(st) THEN Throw(s1, st.thrown) ELSE s1
       IN Drain(s2, Tail(members))

\* batch(fn), before fn runs: batchDepth++
BatchBegin(st) == [st EXCEPT !.batchDepth = @ + 1]

\* batch(fn), the test made after batchDepth--: was this the outermost call?
Outermost(st) == st.batchDepth = 0

\* batch(fn), after fn returned or threw: batchDepth--, and at depth 0 the
\* pending set is drained and cleared.
BatchEnd(st) ==
  LET s1 == [st EXCEPT !.batchDepth = @ - 1] IN
  IF Outermost(s1)
    THEN LET s2 == Drain([s1 EXCEPT !.flushes = @ + 1], s1.pendingEffects) IN
         [s2 EXCEPT !.pendingEffects = <<>>]
    ELSE s1

\* ------------------------------------------------------------ transition
\* startTransition(callback), up to the call of callback: a reentrant call
\* runs the callback inline, the outermost one opens the batch.
TransitionBegin(st) ==
  IF st.isTransitioning THEN st
  ELSE BatchBegin([st EXCEPT !.isTransitioning = TRUE, !.pendingUpdates = <<>>])

\* startTransition(callback), from the return of the outermost callback:
\* flushPending() unless the callback threw, the end of batch, and the finally.
TransitionEnd(st, callbackThrew) ==
  LET s1 == IF callbackThrew THEN Throw(st, "Error") ELSE FlushPending(st)
      s2 == BatchEnd(s1)
  IN [s2 EXCEPT !.isTransitioning = FALSE]

\* ------------------------------------------------------------- the machine
\* `last` when the call just made returned nothing and did not throw.
NoCall == [op |-> "none", arg |-> Null, thrown |-> "none", ret |-> Undefined]

Init ==
  /\ value = [s \in Sources |-> IF s \in Signals THEN 0 ELSE Undefined]
  /\ subscribers = [s \in Signals |-> <<>>]
  /\ dependencies = [n \in Nodes |-> {}]
  /\ dirty = [c \in Comps |-> TRUE]
  /\ constructed = [c \in Comps |-> "no"]
  /\ body = [e \in Effects |-> "none"]
  /\ disposed = [e \in Effects |-> FALSE]
  /\ cleanup = [e \in Effects |-> 0]
  /\ runs = [e \in Effects |-> 0]
  /\ ctxCount = 0
  /\ parent = [n \in Nodes |-> Null]
  /\ execute = [n \in Ctxs |-> "none"]
  /\ errorBoundaries = [n \in Nodes |-> "none"]
  /\ currentContext = Null
  /\ batchDepth = 0
  /\ pendingEffects = <<>>
  /\ currentScheduler = "default"
  /\ microtasks = <<>>
  /\ timers = 0
  /\ isTransitioning = FALSE
  /\ pendingUpdates = <<>>
  /\ stack = <<>>
  /\ last = NoCall
  /\ handed = [n \in Nodes |-> 0]
  /\ affected = {}
  /\ cleanupDone = [e \in Effects |-> {}]
  /\ cleanupTwice = [e \in Effects |-> FALSE]
  /\ disposeCalls = [e \in Effects |-> 0]
  /\ disposeCleanups = [e \in Effects |-> 0]
  /\ everRead = [e \in Effects |-> {}]
  /\ lastReads = [e \in Effects |-> {}]
  /\ lastRunOk = [e \in Effects |-> FALSE]
  /\ ranDisposed = [e \in Effects |-> FALSE]
  /\ handlerCalls = [w \in Wrapped |-> 0]
  /\ fnThrows = [w \in Wrapped |-> 0]
  /\ fnCalls = [e \in Effects |-> 0]
  /\ batchWrites = 0
  /\ batchWrote = FALSE
  /\ joinRun = "none"
  /\ seen = [e \in Effects |-> <<>>]
  /\ bodyThrows = [e \in Effects |-> 0]
  /\ routed = [n \in Nodes |-> 0]
  /\ effectScheduler = [e \in Effects |-> "none"]
  /\ initialTasks = [e \in Effects |-> 0]
  /\ flushes = 0
  /\ suspended = FALSE
  /\ scheduled = FALSE
  /\ pendingTask = Null
  /\ throttleTimers = 0
  /\ window = <<>>
  /\ lastFire = [tasks |-> <<>>, ran |-> Null]
  /\ uncaught = FALSE
  /\ overflow = FALSE

\* The calls the model explores stay within its bounds.
Bounded(r) ==
  /\ ~r.overflow
  /\ \A e \in Effects : r.runs[e] <= MaxRuns /\ r.fnCalls[e] <= MaxRuns
  /\ Len(r.microtasks) <= MaxQueue
  /\ Len(r.pendingUpdates) <= MaxQueue
  /\ r.timers <= MaxTimers
  /\ Len(r.window) <= MaxQueue

\* `handed` and `affected` describe one outermost batch/startTransition call:
\* they are kept while it runs and in the state it returns in.
KeepBatchNotes(r, op) ==
  r.stack # <<>> \/ op \in {"batchExit", "transitionExit"}

\* The state after a call that ended in program state r.
Commit(r, op, arg) ==
  /\ Bounded(r)
  /\ value' = r.value
  /\ subscribers' = r.subscribers
  /\ dependencies' = r.dependencies
  /\ dirty' = r.dirty
  /\ constructed' = r.constructed
  /\ body' = r.body
  /\ disposed' = r.disposed
  /\ cleanup' = r.cleanup
  /\ runs' = r.runs
  /\ ctxCount' = r.ctxCount
  /\ parent' = r.parent
  /\ execute' = r.execute
  /\ errorBoundaries' = r.errorBoundaries
  /\ currentContext' = r.currentContext
  /\ batchDepth' = r.batchDepth
  /\ pendingEffects' = r.pendingEffects
  /\ currentScheduler' = r.currentScheduler
  /\ microtasks' = r.microtasks
  /\ timers' = r.timers
  /\ isTransitioning' = r.isTransitioning
  /\ pendingUpdates' = r.pendingUpdates
  /\ stack' = r.stack
  /\ last' = IF op \in {"read", "call", "setEqual"} \/ Threw(r)
               THEN [op |-> op, arg |-> arg, thrown |-> r.thrown,
                     ret |-> IF op \in {"read", "setEqual"} /\ ~Threw(r)
                               THEN r.ret ELSE Undefined]
               ELSE NoCall
  /\ handed' = IF KeepBatchNotes(r, op) THEN r.handed ELSE [n \in Nodes |-> 0]
  /\ affected' = IF KeepBatchNotes(r, op) THEN r.affected ELSE {}
  /\ batchWrites' = IF KeepBatchNotes(r, op) THEN r.batchWrites ELSE 0
  /\ batchWrote' = r.batchWrote
  /\ joinRun' = r.joinRun
  /\ cleanupDone' = r.cleanupDone
  /\ cleanupTwice' = r.cleanupTwice
  /\ disposeCalls' = r.disposeCalls
  /\ disposeCleanups' = r.disposeCleanups
  /\ everRead' = r.everRead
  /\ lastReads' = r.lastReads
  /\ lastRunOk' = r.lastRunOk
  /\ ranDisposed' = r.ranDisposed
  /\ handlerCalls' = r.handlerCalls
  /\ fnThrows' = r.fnThrows
  /\ fnCalls' = r.fnCalls
  /\ seen' = r.seen
  /\ bodyThrows' = r.bodyThrows
  /\ routed' = r.routed
  /\ effectScheduler' = r.effectScheduler
  /\ initialTasks' = r.initialTasks
  /\ flushes' = IF KeepBatchNotes(r, op) THEN r.flushes ELSE 0
  /\ suspended' = r.suspended
  /\ scheduled' = r.scheduled
  /\ pendingTask' = r.pendingTask
  /\ throttleTimers' = r.throttleTimers
  /\ window' = r.window
  /\ lastFire' = r.lastFire
  /\ uncaught' = r.uncaught
  /\ overflow' = r.overflow

\* Client code calls a setter.  Inside a batch call the nodes subscribed at a
\* non-equal write are noted in `affected`; a write of a different value that
\* the comparator finds equal is noted in `last` with the value offered.
Write(s, newValue) ==
  LET v == WrittenValue(newValue, value[s])
      equal == Comparator(s, value[s], v)
      diamond == s = X /\ constructed[A] = "reader" /\ constructed[B] = "reader"
      s0 == IF stack # <<>> /\ ~equal
              THEN [St EXCEPT !.affected = @ \cup Range(subscribers[s]),
                              !.batchWrites = @ + 1,
                              !.batchWrote = @ \/ (diamond /\ batchDepth > 0)]
              ELSE St
      noted == equal /\ v # value[s]
      r == SignalSet(s0, s, newValue)
  IN /\ s0.batchWrites <= MaxWrites
     /\ Commit(IF noted THEN Return(r, v) ELSE r,
               IF noted THEN "setEqual" ELSE "set", s)

\* Client code calls computed(computeFn).
CreateComputed(c) ==
  /\ constructed[c] = "no"
  /\ c = C => constructed[A] = "reader" /\ constructed[B] = "reader"
  /\ Commit(computed(St, c), "computed", c)

\* Client code calls the reader of a Computed, outside any reactive body.
ReadComputed(c) ==
  /\ constructed[c] = "reader"
  /\ Commit(ComputedGet(St, c), "read", c)

\* Client code calls effect(effectFn) (transitionEffect(effectFn) for "trans").
CreateEffect(e, kind) ==
  /\ body[e] = "none"
  /\ \A f \in Effects : f[2] < e[2] => body[f] # "none"
  /\ Commit(effect(St, e, kind, "none"), "effect", e)

\* Client code calls effect(effectFn, {scheduler}).
CreateEffectWith(e, kind, scheduler) ==
  /\ body[e] = "none"
  /\ \A f \in Effects : f[2] < e[2] => body[f] # "none"
  /\ Commit(effect(St, e, kind, scheduler), "effect", e)

\* Client code calls the disposer of an Effect.
Dispose(e) ==
  /\ body[e] # "none"
  /\ disposeCalls[e] < MaxDispose
  /\ Commit(EffectDispose(St, e), "dispose", e)

\* Client code calls a function wrapped by withErrorBoundary.
CallWrapped(w) ==
  Commit(ProtectedFn(St, w), "call", Null)

\* Client code calls setScheduler.
SetScheduler(scheduler) ==
  /\ currentScheduler # scheduler
  /\ Commit([St EXCEPT !.currentScheduler = scheduler], "setScheduler", Null)

\* batch(fn) is called and fn starts.
BatchEnter ==
  /\ Len(stack) < MaxDepth
  /\ LET s0 == IF stack = <<>>
                 THEN [St EXCEPT !.handed = [n \in Nodes |-> 0], !.affected = {},
                                 !.flushes = 0,
                                 !.batchWrites = 0]
                 ELSE St
     IN Commit([BatchBegin(s0) EXCEPT !.stack = Append(@, "batch")],
               "batchEnter", Null)

\* fn returns and batch(fn) completes.
BatchExit ==
  /\ stack # <<>>
  /\ stack[Len(stack)] = "batch"
  /\ LET r == BatchEnd(St) IN
     Commit([r EXCEPT !.stack = SubSeq(@, 1, Len(@) - 1)], "batchExit", Null)

\* startTransition(callback) is called and callback starts.
TransitionEnter ==
  /\ Len(stack) < MaxDepth
  /\ LET s0 == IF stack = <<>>
                 THEN [St EXCEPT !.handed = [n \in Nodes |-> 0], !.affected = {},
                                 !.flushes = 0,
                                 !.batchWrites = 0]
                 ELSE St
         frame == IF isTransitioning THEN "inline" ELSE "transition"
     IN Commit([TransitionBegin(s0) EXCEPT !.stack = Append(@, frame)],
               "transitionEnter", Null)

\* The callback of startTransition returns or throws, and the call completes.
TransitionExit(callbackThrew) ==
  /\ stack # <<>>
  /\ stack[Len(stack)] \in {"inline", "transition"}
  /\ LET r == IF stack[Len(stack)] = "inline"
                THEN (IF callbackThrew THEN Throw(St, "Error") ELSE St)
                ELSE TransitionEnd(St, callbackThrew)
     IN Commit([r EXCEPT !.stack = SubSeq(@, 1, Len(@) - 1)],
               "transitionExit", Null)

\* The async callback of the outermost startTransition reaches its await: the
\* call of the callback returns a promise and startTransition completes as for
\* any returned value, while the rest of the callback waits to be resumed.
TransitionAwait ==
  /\ stack # <<>>
  /\ stack[Len(stack)] = "transition"
  /\ ~suspended
  /\ Commit([TransitionEnd(St, FALSE) EXCEPT !.stack = SubSeq(@, 1, Len(@) - 1),
                                             !.suspended = TRUE],
            "transitionExit", Null)

\* The host resumes the callback after its await (a promise job): the rest of
\* the callback calls the setter.
Resume(newValue) ==
  /\ stack = <<>>
  /\ suspended
  /\ Commit([SignalSet(St, X, newValue) EXCEPT !.suspended = FALSE], "resume", X)

\* The host fires a timer of the throttled scheduler; an error thrown by the
\* callback reaches the host.
FireThrottle ==
  /\ stack = <<>>
  /\ throttleTimers > 0
  /\ LET r == ThrottledFire([St EXCEPT !.throttleTimers = @ - 1]) IN
     Commit(IF Threw(r) THEN [r EXCEPT !.uncaught = TRUE] ELSE r, "throttle", Null)

\* The host runs the next microtask; an error thrown by it reaches the host
\* (and is noted in `last`).
RunMicrotask ==
  /\ stack = <<>>
  /\ microtasks # <<>>
  /\ LET r == Execute([St EXCEPT !.microtasks = Tail(@)], Head(microtasks)) IN
     Commit(IF Threw(r) THEN [r EXCEPT !.uncaught = TRUE] ELSE r,
            "task", Head(microtasks))

\* The host fires a timer set by handleEffectError: it throws the error.
FireTimer ==
  /\ stack = <<>>
  /\ timers > 0
  /\ Commit([St EXCEPT !.timers = @ - 1, !.uncaught = TRUE], "timer", Null)

Next ==
  \/ \E s \in Signals, newValue \in NewValues : Write(s, newValue)
  \/ \E c \in Comps : CreateComputed(c)
  \/ \E c \in Comps : ReadComputed(c)
  \/ \E e \in Effects, kind \in BodyKinds : CreateEffect(e, kind)
  \/ \E e \in Effects, kind \in BodyKinds, scheduler \in {"default", "sync"} :
       CreateEffectWith(e, kind, scheduler)
  \/ \E e \in Effects : Dispose(e)
  \/ \E w \in Wrapped : CallWrapped(w)
  \/ \E scheduler \in {"default", "sync", "throttled"} : SetScheduler(scheduler)
  \/ BatchEnter
  \/ BatchExit
  \/ TransitionEnter
  \/ \E callbackThrew \in BOOLEAN : TransitionExit(callbackThrew)
  \/ TransitionAwait
  \/ \E newValue \in NewValues : Resume(newValue)
  \/ RunMicrotask
  \/ FireTimer
  \/ FireThrottle

Spec == Init /\ [][Next]_vars

\* ------------------------------------------------------- client programs
\* The full machine interleaves every API; each specification below is one
\* client program, the part of the API it uses.

\* Two counters incremented by updaters, an Effect alternating between them
\* and an Effect on the first one that returns a cleanup, with disposal.
NextEffect ==
  \/ \E s \in Signals : Write(s, <<"fn", "next">>)
  \/ CreateEffect(E1, "alt")
  \/ CreateEffect(E2, "sub")
  \/ \E e \in Effects : Dispose(e)
  \/ \E scheduler \in {"default", "sync"} : SetScheduler(scheduler)
  \/ RunMicrotask

SpecEffect == Init /\ [][NextEffect]_vars

\* The same two Effects, the Signals written with any literal or updater,
\* inside and outside batch.
NextBatch ==
  \/ \E s \in Signals, newValue \in NewValues : Write(s, newValue)
  \/ CreateEffect(E1, "alt")
  \/ CreateEffect(E2, "sub")
  \/ \E scheduler \in {"default", "sync"} : SetScheduler(scheduler)
  \/ BatchEnter
  \/ BatchExit
  \/ RunMicrotask

SpecBatch == Init /\ [][NextBatch]_vars

\* Computeds over Signal X, read from outside any reactive body.
NextComputed ==
  \/ \E newValue \in NewValues : Write(X, newValue)
  \/ \E c \in {Doubled, A} : CreateComputed(c)
  \/ \E c \in {Doubled, A} : ReadComputed(c)
  \/ \E scheduler \in {"default", "sync"} : SetScheduler(scheduler)
  \/ BatchEnter
  \/ BatchExit
  \/ RunMicrotask

SpecComputed == Init /\ [][NextComputed]_vars

\* The diamond: A and B over X, C over A and B.
NextDiamond ==
  \/ \E newValue \in NewValues : Write(X, newValue)
  \/ \E c \in {A, B, C} : CreateComputed(c)
  \/ \E c \in {A, B, C} : ReadComputed(c)
  \/ BatchEnter
  \/ BatchExit
  \/ RunMicrotask

SpecDiamond == Init /\ [][NextDiamond]_vars

\* Functions wrapped by withErrorBoundary, called directly and as effect bodies.
NextBoundary ==
  \/ \E s \in Signals, newValue \in NewValues : Write(s, newValue)
  \/ \E e \in Effects : CreateEffect(e, "risky")
  \/ \E w \in Wrapped : CallWrapped(w)
  \/ \E scheduler \in {"default", "sync"} : SetScheduler(scheduler)
  \/ RunMicrotask

SpecBoundary == Init /\ [][NextBoundary]_vars

\* One transition instance with its transition effects.
NextTransition ==
  \/ \E newValue \in NewValues : Write(X, newValue)
  \/ \E e \in Effects, kind \in {"trans", "sub"} : CreateEffect(e, kind)
  \/ \E scheduler \in {"default", "sync"} : SetScheduler(scheduler)
  \/ TransitionEnter
  \/ \E callbackThrew \in BOOLEAN : TransitionExit(callbackThrew)
  \/ RunMicrotask

SpecTransition == Init /\ [][NextTransition]_vars

\* ------------------------------------------------------------ properties

\* C1 (no stale Computed read): every call of a Computed's reader returns
\* normally, with its computeFn applied to the current value of the Signal it
\* depends on.
C1_NoStaleRead ==
  last.op = "read" =>
    last.thrown = "none" /\ last.ret = Derived(last.arg, value[X])

\* C2 (dedup on no-op write): in every reachable state, a setter call whose
\* value (literal or updater result) the Signal's comparator finds equal to
\* the stored one returns normally, leaves the stored values alone, queues no
\* scheduler task, adds nothing to the pending set, hands no node to the
\* scheduler and runs no Effect body.
C2_NoOpWrite ==
  \A s \in Signals, newValue \in NewValues :
    Comparator(s, value[s], WrittenValue(newValue, value[s])) =>
      LET r == SignalSet(St, s, newValue) IN
      /\ ~Threw(r)
      /\ r.value = value
      /\ r.subscribers = subscribers
      /\ r.microtasks = microtasks
      /\ r.pendingEffects = pendingEffects
      /\ r.runs = runs
      /\ r.handed = handed

\* A write of a different value that Y's comparator found equal, while Y had
\* a subscriber.
C2_Witness ==
  /\ last.op = "setEqual"
  /\ last.arg = Y
  /\ last.ret # value[Y]
  /\ subscribers[Y] # <<>>

\* C3 (disposal stops execution): no step invokes the body of an Effect that
\* is disposed, whatever task was queued for it and whatever is written.
C3_DisposedNeverRuns ==
  [][\A e \in Effects : disposed[e] => runs'[e] = runs[e]]_vars

\* execute() was called on an Effect disposed before its initial run.
C3_Witness ==
  \E e \in Effects : ranDisposed[e] /\ runs[e] = 0

\* C4 (disposal unsubscribes everywhere): a disposed Effect is in the
\* subscriber set of no source it read in any of its runs.
C4_DisposedUnsubscribed ==
  \A e \in Effects :
    disposed[e] => \A s \in everRead[e] : e \notin Range(subscribers[s])

\* C5 (idempotent disposer): the calls of an Effect's disposer invoke its
\* cleanup closure once in total.
C5_DisposeCleansOnce ==
  \A e \in Effects : disposeCleanups[e] <= 1

\* C6 (batch coalescing): a node subscribed to a Signal at a non-equal write
\* of a batch call is handed to the scheduler zero times while the call
\* runs and exactly once when it has returned.
C6_BatchCoalescing ==
  \A n \in affected : handed[n] = IF stack = <<>> THEN 1 ELSE 0

\* A batch call that made two non-equal writes has returned.
C6_Witness ==
  /\ stack = <<>>
  /\ batchWrites >= 2
  /\ affected # {}

\* C7 (glitch-freedom on a diamond): once X was written inside a batch, no
\* run of C's computeFn fails to see A and B, or sees a value of A or B that
\* is not derived from the current value of X.
C7_JoinSeesFreshInputs ==
  batchWrote => joinRun \in {"none", "fresh"}

\* C8 (dynamic dependency pruning): after a run of an Effect that returned
\* normally, its dependency set is exactly the set of sources its body read
\* in that run.
C8_DependenciesAreLastReads ==
  \A e \in Effects : lastRunOk[e] => dependencies[e] = lastReads[e]

\* The alternating body has run twice: X was read in the first run only.
C8_Witness ==
  \E e \in Effects :
    /\ body[e] = "alt"
    /\ runs[e] = 2
    /\ X \in everRead[e]
    /\ dependencies[e] = {Y}

\* C9 (error containment): every invocation of a wrapped function in which
\* fn threw has invoked that function's handler once, and no call of a
\* wrapped function, by client code or by a scheduler task, has thrown.
C9_ErrorContained ==
  /\ \A w \in Wrapped : handlerCalls[w] = fnThrows[w]
  /\ last.op = "call" => last.thrown = "none"
  /\ ~uncaught

\* A direct call of a wrapped function in which fn threw has returned.
C9_Witness ==
  /\ last.op = "call"
  /\ last.thrown = "none"
  /\ value[X] = MaxVal
  /\ handlerCalls["risky"] >= 1

\* C10 (transition deferral): no step taken while the callback of
\* startTransition is executing invokes the effectFn of a transition effect.
C10_TransitionDefers ==
  [][("transition" \in Range(stack) /\ "transition" \in Range(stack'))
       => fnCalls' = fnCalls]_vars

\* Under a synchronous scheduler a transition effect ran inside the callback
\* and was deferred.
C10_Witness ==
  /\ "transition" \in Range(stack)
  /\ currentScheduler = "sync"
  /\ pendingUpdates # <<>>
  /\ \A e \in Effects : fnCalls[e] = 0


\* ---------------------------------------------------------------- C11
\* The counter example: an Effect logging Signal X and an Effect logging the
\* Computed A derived from X.
NextNotify ==
  \/ \E newValue \in NewValues : Write(X, newValue)
  \/ CreateComputed(A)
  \/ CreateEffect(E1, "logs")
  \/ constructed[A] = "reader" /\ CreateEffect(E2, "derived")
  \/ \E scheduler \in {"default", "sync"} : SetScheduler(scheduler)
  \/ BatchEnter
  \/ BatchExit
  \/ RunMicrotask
  \/ FireTimer

SpecNotify == Init /\ [][NextNotify]_vars

\* No call is in progress and no scheduled task is waiting.
Quiescent == stack = <<>> /\ microtasks = <<>>

\* C11 (no missed notification): once the system is quiescent, the last run
\* of every Effect that is not disposed saw the current value of what it
\* reads: X for the Effect reading X, computeFn of X for the one reading A.
C11_QuiescentEffectsCurrent ==
  Quiescent =>
    \A e \in Effects :
      (body[e] \in {"logs", "derived"} /\ ~disposed[e]) =>
        seen[e] = <<IF body[e] = "logs" THEN value[X] ELSE Derived(A, value[X])>>


\* ---------------------------------------------------------------- C12
\* Effects whose body throws when X is MaxVal, run by writes, batch exits and
\* scheduler tasks.
NextFailing ==
  \/ \E newValue \in NewValues : Write(X, newValue)
  \/ \E e \in Effects : CreateEffect(e, "fails")
  \/ \E scheduler \in {"default", "sync"} : SetScheduler(scheduler)
  \/ BatchEnter
  \/ BatchExit
  \/ RunMicrotask

SpecFailing == Init /\ [][NextFailing]_vars

C13_UntrackedReadSafe ==
  currentContext = Null =>
    /\ \A s \in Signals :
         LET r == SignalGet(St, s) IN
           /\ ~Threw(r)
           /\ r.subscribers = subscribers
           /\ r.dependencies = dependencies
    /\ \A c \in Comps :
         constructed[c] = "reader" =>
           LET r == ComputedGet(St, c) IN
             /\ ~Threw(r)
             /\ r.subscribers = subscribers
             /\ \A n \in Nodes \ {c} : r.dependencies[n] = dependencies[n]


\* ---------------------------------------------------------------- C14
\* Effects created with and without a scheduler of their own, disposed before
\* or after their initial task runs; no Signal is written, so every run of a
\* body is an initial one.
NextInitial ==
  \/ \E e \in Effects : CreateEffect(e, "sub")
  \/ \E e \in Effects, scheduler \in {"default", "sync"} :
       CreateEffectWith(e, "alt", scheduler)
  \/ \E e \in Effects : Dispose(e)
  \/ \E scheduler \in {"default", "sync"} : SetScheduler(scheduler)
  \/ RunMicrotask

SpecInitial == Init /\ [][NextInitial]_vars

\* The number of tasks for node n waiting in the microtask queue.
Queued(n) == Cardinality({i \in 1..Len(microtasks) : microtasks[i] = n})

C15_BatchedWriteInvalidates ==
  [][(batchDepth > 0 /\ batchWrites' > batchWrites) =>
       \A c \in Comps :
         (constructed[c] = "reader" /\ X \in dependencies[c]) => dirty'[c]]_vars


\* ---------------------------------------------------------------- C16
\* Two Effects subscribed to X, which is stepped by an updater inside batch
\* calls nested to depth MaxDepth.
NextNested ==
  \/ Write(X, <<"fn", "next">>)
  \/ \E e \in Effects : CreateEffect(e, "sub")
  \/ \E scheduler \in {"default", "sync"} : SetScheduler(scheduler)
  \/ BatchEnter
  \/ BatchExit
  \/ RunMicrotask

SpecNested == Init /\ [][NextNested]_vars

\* C16 (nested batches flush once): while the batch depth is above 0 no node
\* is handed to the scheduler and the pending set is not drained; the return
\* of the outermost batch call drains it exactly once and leaves it empty,
\* and outside batch calls the pending set is empty.
C16_NestedFlushOnce ==
  /\ [](batchDepth > 0 => flushes = 0 /\ \A n \in Nodes : handed[n] = 0)
  /\ [](batchDepth = 0 => pendingEffects = <<>>)
  /\ [][(stack # <<>> /\ stack' = <<>>) =>
          /\ flushes' = 1
          /\ \A n \in Range(pendingEffects) : handed'[n] = 1]_vars
  /\ [][(Len(stack') = 1 /\ Len(stack) = 2) =>
          /\ flushes' = 0
          /\ pendingEffects' = pendingEffects]_vars

\* An inner batch call that wrote has returned into the outer one, with
\* both Effects pending.
C16_Witness ==
  /\ Len(stack) = 1
  /\ last.op = "none"
  /\ batchDepth = 1
  /\ batchWrites = 2
  /\ Len(pendingEffects) = 2


\* ---------------------------------------------------------------- C17
\* C17 (clean after construction): when computed(computeFn) returns the
\* reader, the new Computed's dirty flag is false.
C17_CleanAfterConstruction ==
  [][\A c \in Comps :
       (constructed[c] = "no" /\ constructed'[c] = "reader") => ~dirty'[c]]_vars


\* ---------------------------------------------------------------- C18
\* The diamond A, B over X and C over A and B, built, written and read
\* outside batch calls.
NextJoin ==
  \/ \E newValue \in NewValues : Write(X, newValue)
  \/ \E c \in {A, B, C} : CreateComputed(c)
  \/ \E c \in {A, B, C} : ReadComputed(c)
  \/ \E scheduler \in {"default", "sync"} : SetScheduler(scheduler)
  \/ RunMicrotask

SpecJoin == Init /\ [][NextJoin]_vars

NextGuarded ==
  \/ \E newValue \in NewValues : Write(X, newValue)
  \/ CreateComputed(Guarded)
  \/ ReadComputed(Guarded)
  \/ \E scheduler \in {"default", "sync"} : SetScheduler(scheduler)
  \/ RunMicrotask

SpecGuarded == Init /\ [][NextGuarded]_vars

\* C19 (computeFn failures are intercepted): no call of a Computed's reader
\* ends with the exception its computeFn threw.
C19_ComputeErrorContained ==
  last.op = "read" => last.thrown # "Error"


\* ---------------------------------------------------------------- C20
\* C20 (a failed recomputation keeps the last good value): when the reader of
\* a dirty Computed ends with its computeFn's exception, the cached value is
\* the one from before the call and the node is still dirty, and a second
\* read made at once runs computeFn again and ends with the same exception.
C20_FailedReadKeepsValue ==
  /\ [][(last'.op = "read" /\ last'.thrown = "Error") =>
          \A c \in Comps :
            last'.arg = c => value'[c] = value[c] /\ dirty[c] /\ dirty'[c]]_vars
  /\ [](\A c \in Comps :
          (constructed[c] = "reader" /\ dirty[c]) =>
            LET r == ComputedGet(St, c) IN
              r.thrown = "Error" =>
                /\ r.value[c] = value[c]
                /\ r.dirty[c]
                /\ ComputedGet(Caught(r), c).thrown = "Error")

\* A read of Guarded failed while it held a value computed earlier.
C20_Witness ==
  /\ last.op = "read" /\ last.thrown = "Error" /\ last.arg = Guarded
  /\ value[Guarded] # Undefined
  /\ dirty[Guarded]


\* ---------------------------------------------------------------- C21
\* Effects with a wrapped body and with a throwing body, a Computed whose
\* computeFn can throw, and direct calls of wrapped functions.
NextContext ==
  \/ Write(X, <<"fn", "next">>)
  \/ CreateEffect(E1, "risky")
  \/ CreateEffect(E2, "fails")
  \/ CreateComputed(Guarded)
  \/ ReadComputed(Guarded)
  \/ CallWrapped("outer")
  \/ SetScheduler("sync")
  \/ RunMicrotask

SpecContext == Init /\ [][NextContext]_vars

\* C21 (active node saved and restored): between calls no node is active,
\* and Effect.execute(), Computed.recompute() and a wrapped function, called
\* in any reachable state with no node or with an Effect active, return or
\* throw with the active node they were called with.
C21_ActiveNodeRestored ==
  /\ currentContext = Null
  /\ \A n \in {Null} \cup {e \in Effects : body[e] # "none"} :
       LET s == [St EXCEPT !.currentContext = n] IN
         /\ \A e \in Effects :
              body[e] # "none" => EffectExecute(s, e).currentContext = n
         /\ \A c \in {Guarded} :
              constructed[c] # "no" => ComputedRecompute(s, c).currentContext = n
         /\ \A w \in Wrapped : ProtectedFn(s, w).currentContext = n

\* Runs of all three kinds have ended with an exception of their body.
C21_Witness ==
  /\ currentContext = Null
  /\ handlerCalls["risky"] >= 1
  /\ bodyThrows[E2] >= 1
  /\ last.op = "read" /\ last.thrown = "Error"


\* ---------------------------------------------------------------- C22
\* C22 (bilateral edges): between runs, a Signal is in the dependency set of
\* a live Effect or a Computed exactly when that node is in the Signal's
\* subscriber set.
C22_BilateralEdges ==
  \A n \in Effects \cup Comps, s \in Signals :
    (n \in Effects => ~disposed[n]) =>
      (s \in dependencies[n] <=> n \in Range(subscribers[s]))


\* ---------------------------------------------------------------- C23
\* C23 (dropped dependencies stop triggering): a write that changes X
\* neither runs nor queues a live Effect whose most recent run did not read X.
C23_DroppedStopsTriggering ==
  [][\A e \in Effects :
       (/\ body[e] # "none" /\ ~disposed[e]
        /\ lastRunOk[e] /\ X \notin lastReads[e]
        /\ value'[X] # value[X]) =>
         /\ runs'[e] = runs[e]
         /\ Cardinality({i \in 1..Len(microtasks') : microtasks'[i] = e})
              = Queued(e)]_vars


\* ---------------------------------------------------------------- C24
\* C24 (innermost boundary wins): handleEffectError called with any boundary
\* context that exists returns normally having invoked the handler registered
\* on that context once and no other handler, whatever its ancestors are; and
\* the handler of the outer wrapped function has been invoked only for the
\* outer function's own throws, never for those of the function nested in it.
C24_InnermostBoundaryWins ==
  /\ handlerCalls["outer"] = fnThrows["outer"]
  /\ \A n \in Ctxs :
       n[2] <= ctxCount =>
         LET r == HandleEffectError(St, n, "Error") IN
           /\ ~Threw(r)
           /\ r.timers = timers
           /\ \A w \in Wrapped :
                r.handlerCalls[w] =
                  handlerCalls[w] + (IF w = errorBoundaries[n] THEN 1 ELSE 0)

\* The inner function threw inside a call of the outer one: only the inner
\* handler has run, and the inner context has the outer one as its parent.
C24_Witness ==
  /\ handlerCalls["risky"] >= 1
  /\ handlerCalls["outer"] = 0
  /\ \E n \in Ctxs :
       /\ n[2] <= ctxCount
       /\ errorBoundaries[n] = "risky"
       /\ parent[n] \in Ctxs
       /\ errorBoundaries[parent[n]] = "outer"


\* ---------------------------------------------------------------- C25
\* A program whose Effects have throwing bodies and no error boundary, with
\* the host firing the timers armed by handleEffectError.
NextRethrow ==
  \/ \E newValue \in NewValues : Write(X, newValue)
  \/ \E e \in Effects : CreateEffect(e, "fails")
  \/ SetScheduler("sync")
  \/ RunMicrotask
  \/ FireTimer

SpecRethrow == Init /\ [][NextRethrow]_vars

C26_FlagDiscipline ==
  /\ [](isTransitioning <=> \E i \in 1..Len(stack) : stack[i] = "transition")
  /\ [][(\/ (Len(stack') > Len(stack) /\ stack'[Len(stack')] = "inline")
          \/ (Len(stack') < Len(stack) /\ stack[Len(stack)] = "inline")) =>
            /\ isTransitioning' = isTransitioning
            /\ pendingUpdates' = pendingUpdates]_vars

\* A reentrant startTransition is on the stack while the outer transition has
\* a deferred update queued.
C26_Witness ==
  /\ stack = <<"transition", "inline">>
  /\ isTransitioning
  /\ pendingUpdates # <<>>


\* ---------------------------------------------------------------- C27
\* C27 (no deferred transition effect is lost): whenever the instance is not
\* transitioning its pending-update queue is empty, every effectFn queued
\* during a startTransition call having been run by the end of that call.
C27_NoDeferredLost == ~isTransitioning => pendingUpdates = <<>>


\* ---------------------------------------------------------------- C28
\* The loadData example: startTransition with an async callback that writes,
\* awaits and writes again, next to transition effects and other transitions.
NextAsync ==
  \/ \E newValue \in NewValues : Write(X, newValue)
  \/ \E e \in Effects : CreateEffect(e, "trans")
  \/ SetScheduler("sync")
  \/ TransitionEnter
  \/ \E callbackThrew \in BOOLEAN : TransitionExit(callbackThrew)
  \/ TransitionAwait
  \/ \E newValue \in NewValues : Resume(newValue)
  \/ RunMicrotask

SpecAsync == Init /\ [][NextAsync]_vars

\* C28 (a transition spans its asynchronous work): while an async callback
\* of startTransition is waiting to be resumed, and so when it resumes and
\* writes, the instance is transitioning and a batch is open.
C28_SpansAsyncWork == suspended => (isTransitioning /\ batchDepth > 0)


\* ---------------------------------------------------------------- C29
\* A program that installs a throttled scheduler: Effects that read X, Effects
\* that read Y and increment X, writes, and the host firing the timers.
NextThrottle ==
  \/ \E s \in Signals : Write(s, <<"fn", "next">>)
  \/ \E e \in Effects, kind \in {"sub", "bump"} : CreateEffect(e, kind)
  \/ SetScheduler("throttled")
  \/ RunMicrotask
  \/ FireThrottle

SpecThrottle == Init /\ [][NextThrottle]_vars

\* C29 (throttled scheduler is latest-wins): the throttled scheduler has at
\* most one timer armed, and the latest firing of a timer called the task
\* given to schedule() last since that timer was armed.
C29_LatestWins ==
  /\ throttleTimers <= 1
  /\ lastFire.tasks # <<>> =>
       lastFire.ran = lastFire.tasks[Len(lastFire.tasks)]


\* ---------------------------------------------------------------- C30
\* Effects whose body returns a cleanup closure and throws at X = MaxVal,
\* re-run by writes and disposed by client code.
NextCleanup ==
  \/ \E newValue \in NewValues : Write(X, newValue)
  \/ \E e \in Effects : CreateEffect(e, "fails")
  \/ \E e \in Effects : Dispose(e)
  \/ SetScheduler("sync")
  \/ RunMicrotask

SpecCleanup == Init /\ [][NextCleanup]_vars

\* C30 (each cleanup closure runs at most once): for an Effect whose disposer
\* has been called at most once, no cleanup closure returned by a run of its
\* body has been invoked a second time.
C30_CleanupOnce ==
  \A e \in Effects : disposeCalls[e] <= 1 => ~cleanupTwice[e]


\* ---------------------------------------------------------------- C31
\* C31 (the throttled scheduler tolerates re-entrant scheduling): whenever a
\* timer of the throttled scheduler is armed there is a pending task for its
\* firing to call, and no firing has ended in an error that reached the host.
C31_ReentrantTaskKept ==
  /\ throttleTimers > 0 => pendingTask # Null
  /\ ~uncaught


\* ---------------------------------------------------------------- C32
\* C32 (no subscription growth through boundaries): the subscriber set of a
\* Signal holds at most one boundary context of each wrapped function,
\* however many times the function has been invoked, so that a write
\* schedules at most one re-invocation of it.
C32_NoSubscriptionGrowth ==
  \A w \in Wrapped, s \in Signals :
    Cardinality({n \in Range(subscribers[s]) : IsCtx(n) /\ execute[n] = w}) <= 1

====
